---- MODULE Spec2Model ----
(***************************************************************************)
(* Model of js_modules/dagit/src/JobUtils.tsx: the JobRunStatus component  *)
(* (a projection from a JobStateFragment snapshot to a React element tree) *)
(* and the JOB_STATE_FRAGMENT GraphQL document it is fetched with.         *)
(***************************************************************************)
EXTENDS Integers, Sequences, FiniteSets, TLC

VARIABLES fragment, stored, jobState, out, source

vars == <<fragment, stored, jobState, out, source>>

\* ------------------------------------------------------------------ bounds
MaxRuns == 2
MaxCalls == 2

\* ------------------------------------------------------------ input domain
\* A runId is modelled as its hyphen-separated segments.
RunIds == { <<"abc123", "9f">>, <<"abc123", "07">> }
RunDbIds == { "r1", "r2" }
\* "BOGUS" stands for a status value outside the documented enum.
RunStatuses == { "SUCCESS", "BOGUS" }

Runs == [id : RunDbIds, runId : RunIds, status : RunStatuses]

RECURSIVE SeqsUpTo(_, _)
SeqsUpTo(S, n) ==
  IF n = 0 THEN { <<>> }
  ELSE LET shorter == SeqsUpTo(S, n - 1)
       IN shorter \cup { Append(s, x) : s \in { t \in shorter : Len(t) = n - 1 }, x \in S }

Tick(i) == [id |-> i]

\* The fields of a JobState other than runs.
JobMetas ==
  { [id |-> "j1", name |-> "sensor_a", jobType |-> "SENSOR", status |-> "RUNNING",
     repositoryOrigin |-> "origin_a",
     jobSpecificData |-> [typename |-> "SensorJobData", value |-> "key1"],
     ticks |-> << Tick("t1") >>, runningCount |-> 1],
    [id |-> "j2", name |-> "schedule_b", jobType |-> "SCHEDULE", status |-> "STOPPED",
     repositoryOrigin |-> "origin_b",
     jobSpecificData |-> [typename |-> "ScheduleJobData", value |-> "0 * * * *"],
     ticks |-> << >>, runningCount |-> 0],
    [id |-> "j3", name |-> "sensor_c", jobType |-> "SENSOR", status |-> "STOPPED",
     repositoryOrigin |-> "origin_a",
     jobSpecificData |-> [typename |-> "SensorJobData", value |-> "key2"],
     ticks |-> << Tick("t2"), Tick("t1") >>, runningCount |-> 2] }

WithRuns(m, rs) ==
  [id |-> m.id, name |-> m.name, jobType |-> m.jobType, status |-> m.status,
   repositoryOrigin |-> m.repositoryOrigin, jobSpecificData |-> m.jobSpecificData,
   runs |-> rs, ticks |-> m.ticks, runningCount |-> m.runningCount]

JobStates == { WithRuns(m, rs) : m \in JobMetas, rs \in SeqsUpTo(Runs, MaxRuns) }

\* ------------------------------------------------------- React element tree
Element(tag, props, children) == [tag |-> tag, props |-> props, children |-> children]

Text(s) == Element("#text", [value |-> s], << >>)

\* titleForRun of src/runs/RunUtils: a short title derived from the runId alone.
titleForRun(run) == run.runId[1]

\* The template literal `/instance/runs/${run.runId}` as path segments.
RunPath(runId) == << "instance", "runs", runId >>

RunView(statusRun, linkRun, target) ==
  Element("Group", [direction |-> "row", spacing |-> 4, alignItems |-> "center"],
    << Element("RunStatus", [status |-> statusRun.status], << >>),
       Element("Link", [to |-> RunPath(linkRun.runId), target |-> target, rel |-> "noreferrer"],
         << Element("span", [fontFamily |-> "monospace"],
              << Text(titleForRun([runId |-> linkRun.runId])) >>) >>) >>)

NoneView == Element("span", [color |-> "GRAY4"], << Text("None") >>)

\* Variant: the empty branch also looks at runningCount.
JobRunStatus_countInEmpty(js) ==
  IF Len(js.runs) = 0
  THEN IF js.runningCount = 0 THEN NoneView
       ELSE Element("span", [color |-> "GRAY4"], << Text("Starting") >>)
  ELSE RunView(js.runs[1], js.runs[1], "_blank")

\* Variant: the status dot is taken from the first run, the link from the last.
JobRunStatus_mixedRuns(js) ==
  IF Len(js.runs) = 0 THEN NoneView
  ELSE RunView(js.runs[1], js.runs[Len(js.runs)], "_blank")

\* Variant: the last run is taken as the latest one.
JobRunStatus_lastRun(js) ==
  IF Len(js.runs) = 0 THEN NoneView
  ELSE RunView(js.runs[Len(js.runs)], js.runs[Len(js.runs)], "_blank")

\* Variant: a status outside the enum is rendered as an error element.
JobRunStatus_validating(js) ==
  IF Len(js.runs) = 0 THEN NoneView
  ELSE IF js.runs[1].status \notin { "SUCCESS" }
       THEN Element("error", [message |-> "unknown status"], << >>)
       ELSE RunView(js.runs[1], js.runs[1], "_blank")

\* Variant: the link replaces the current view.
JobRunStatus_sameTab(js) ==
  IF Len(js.runs) = 0 THEN NoneView
  ELSE RunView(js.runs[1], js.runs[1], "_self")

\* Variant: the row is keyed by the run's database id.
JobRunStatus_keyedById(js) ==
  IF Len(js.runs) = 0 THEN NoneView
  ELSE LET run == js.runs[1]
       IN Element("Group", [direction |-> "row", spacing |-> 4, alignItems |-> "center",
                            key |-> run.id],
            << Element("RunStatus", [status |-> run.status], << >>),
               Element("Link", [to |-> RunPath(run.runId), target |-> "_blank", rel |-> "noreferrer"],
                 << Element("span", [fontFamily |-> "monospace"],
                      << Text(titleForRun([runId |-> run.runId])) >>) >>) >>)

JobRunStatus(js) ==
  IF Len(js.runs) = 0
  THEN Element("span", [color |-> "GRAY4"], << Text("None") >>)
  ELSE LET run == js.runs[1]
       IN Element("Group", [direction |-> "row", spacing |-> 4, alignItems |-> "center"],
            << Element("RunStatus", [status |-> run.status], << >>),
               Element("Link", [to |-> RunPath(run.runId), target |-> "_blank", rel |-> "noreferrer"],
                 << Element("span", [fontFamily |-> "monospace"],
                      << Text(titleForRun([runId |-> run.runId])) >>) >>) >>)

\* ------------------------------------------------------- GraphQL documents
Field(name, args, sub) == [kind |-> "field", name |-> name, args |-> args, sub |-> sub]

Leaf(name) == Field(name, << >>, << >>)

Spread(name) == [kind |-> "spread", name |-> name, args |-> << >>, sub |-> << >>]

InlineOn(type, sub) == [kind |-> "inline", name |-> type, args |-> << >>, sub |-> sub]

Arg(name, value) == [name |-> name, value |-> value]

FragmentDef(name, type, selections) == [name |-> name, on |-> type, selections |-> selections]

\* The imported documents; their selections belong to other modules.
REPOSITORY_ORIGIN_FRAGMENT ==
  [definitions |-> << FragmentDef("RepositoryOriginFragment", "RepositoryOrigin", << >>) >>]

PythonErrorFragment ==
  [definitions |-> << FragmentDef("PythonErrorFragment", "PythonError", << >>) >>]

TICK_TAG_FRAGMENT ==
  [definitions |-> << FragmentDef("TickTagFragment", "JobTick", << >>) >>]

\* The gql tag: the definitions written in the template, then those of every
\* interpolated document, in order.
RECURSIVE gql(_, _)
gql(own, interpolated) ==
  IF interpolated = << >> THEN [definitions |-> own]
  ELSE gql(own \o Head(interpolated).definitions, Tail(interpolated))

\* Variant: the run history is requested two deep.
RunsSelection_limit2 ==
  Field("runs", << Arg("limit", 2) >>, << Leaf("id"), Leaf("runId"), Leaf("status") >>)

RunsSelection ==
  Field("runs", << Arg("limit", 1) >>, << Leaf("id"), Leaf("runId"), Leaf("status") >>)

\* Variant: the ticks selection asks for the id only.
TicksSelection_noSpread ==
  Field("ticks", << Arg("limit", 1) >>, << Leaf("id") >>)

TicksSelection ==
  Field("ticks", << Arg("limit", 1) >>, << Leaf("id"), Spread("TickTagFragment") >>)

\* The selection set written between the braces of fragment JobStateFragment.
JobStateSelections ==
  << Leaf("id"),
     Leaf("name"),
     Leaf("jobType"),
     Leaf("status"),
     Field("repositoryOrigin", << >>, << Spread("RepositoryOriginFragment") >>),
     Field("jobSpecificData", << >>,
       << InlineOn("SensorJobData", << Leaf("lastRunKey") >>),
          InlineOn("ScheduleJobData", << Leaf("cronSchedule") >>) >>),
     RunsSelection,
     Leaf("status"),
     TicksSelection,
     Leaf("runningCount") >>

JOB_STATE_FRAGMENT ==
  gql(<< FragmentDef("JobStateFragment", "JobState", JobStateSelections) >>,
      << REPOSITORY_ORIGIN_FRAGMENT, PythonErrorFragment, TICK_TAG_FRAGMENT >>)

\* The body of the fragment the document is named after, and the definitions
\* that follow it.
FragmentBody(doc) == doc.definitions[1].selections

AppendedNames(doc) == { doc.definitions[i].name : i \in 2..Len(doc.definitions) }

\* Every selection set of a body with the path of field names leading to it.
RECURSIVE Levels(_, _)
Levels(sel, path) ==
  LET Below[i \in 0..Len(sel)] ==
        IF i = 0 THEN << >>
        ELSE Below[i - 1] \o
             (IF sel[i].sub = << >> THEN << >>
              ELSE Levels(sel[i].sub, Append(path, sel[i].name)))
  IN << [path |-> path, sel |-> sel] >> \o Below[Len(sel)]

FragmentLevels(doc) == Levels(FragmentBody(doc), << >>)

\* The value of argument arg of the top-level field named name; 0 when the
\* field carries no such argument.
ArgOf(doc, name, arg) ==
  LET body == FragmentBody(doc)
      hits == { <<i, k>> \in (DOMAIN body) \X (1..1) :
                  /\ body[i].kind = "field" /\ body[i].name = name
                  /\ \E a \in DOMAIN body[i].args : body[i].args[a].name = arg }
  IN IF hits = {} THEN 0
     ELSE LET i == (CHOOSE h \in hits : TRUE)[1]
              a == CHOOSE a \in DOMAIN body[i].args : body[i].args[a].name = arg
          IN body[i].args[a].value

\* A server honouring limit: n returns the first n elements of the history.
Window(history, limit) ==
  IF limit = 0 \/ Len(history) <= limit THEN history ELSE SubSeq(history, 1, limit)

Resolve(doc, record) ==
  [record EXCEPT !.runs = Window(@, ArgOf(doc, "runs", "limit")),
                 !.ticks = Window(@, ArgOf(doc, "ticks", "limit"))]

\* ------------------------------------------------------------------ actions
\* The module is loaded and the component is mounted on the job's record as
\* the upstream holds it, windowed or not.
Init ==
  /\ fragment = JOB_STATE_FRAGMENT
  /\ stored \in JobStates
  /\ jobState = stored
  /\ out = << >>
  /\ source = "props"

\* Variant: the latest run is taken off the snapshot with runs.shift().
Render_shift ==
  /\ Len(out) < MaxCalls
  /\ out' = Append(out, JobRunStatus(jobState))
  /\ jobState' = [jobState EXCEPT !.runs = IF @ = << >> THEN @ ELSE Tail(@)]
  /\ UNCHANGED <<fragment, stored, source>>

\* One render pass: the framework invokes the component on the current snapshot.
Render ==
  /\ Len(out) < MaxCalls
  /\ out' = Append(out, JobRunStatus(jobState))
  /\ UNCHANGED <<fragment, stored, jobState, source>>

\* The parent query is (re)fetched with the fragment and the component receives
\* the returned snapshot.
Fetch ==
  /\ jobState' = Resolve(fragment, stored)
  /\ out' = << >>
  /\ source' = "fetch"
  /\ UNCHANGED <<fragment, stored>>

Next == Render \/ Fetch

Spec == Init /\ [][Next]_vars

\* ------------------------------------------------- inspecting a rendered view
\* The elements of a tree in document order.
RECURSIVE Flatten(_)
Flatten(v) ==
  LET Kids[i \in 0..Len(v.children)] ==
        IF i = 0 THEN << >> ELSE Kids[i - 1] \o Flatten(v.children[i])
  IN << v >> \o Kids[Len(v.children)]

WithTag(v, tag) == SelectSeq(Flatten(v), LAMBDA e : e.tag = tag)

\* The visible text of a tree, one entry per text node.
Texts(v) == [i \in DOMAIN WithTag(v, "#text") |-> WithTag(v, "#text")[i].props.value]

IsEmptyState(v) ==
  /\ Texts(v) = << "None" >>
  /\ WithTag(v, "Link") = << >>
  /\ WithTag(v, "RunStatus") = << >>

IsRunState(v) ==
  /\ v.tag = "Group"
  /\ Len(WithTag(v, "RunStatus")) = 1
  /\ Len(WithTag(v, "Link")) = 1

Rendered == Len(out) > 0

Last == out[Len(out)]

\* The spreads of a fragment body, each with the path of its selection set.
SpreadsIn(doc) ==
  LET lv == FragmentLevels(doc)
  IN UNION { { <<lv[l].path, lv[l].sel[i].name>> :
                 i \in { k \in DOMAIN lv[l].sel : lv[l].sel[k].kind = "spread" } } :
             l \in DOMAIN lv }

SpreadNames(doc) == { sp[2] : sp \in SpreadsIn(doc) }

\* ------------------------------------------------------------------- claims

\* C1: whenever the snapshot's runs sequence is empty, every rendered view is
\* the Empty State: the text "None", no link, no status indicator, whatever
\* the other fields of the snapshot are.
C1_EmptyRunsRenderNone ==
  Len(jobState.runs) = 0 => \A i \in DOMAIN out : IsEmptyState(out[i])

C1_Witness ==
  /\ Rendered /\ Len(jobState.runs) = 0
  /\ jobState.runningCount > 0 /\ jobState.ticks # << >>

\* C2: whenever runs is non-empty, the rendered view holds exactly one status
\* element, whose status is runs[0].status, and exactly one link, whose target
\* is the run-detail path of runs[0].runId and whose label is
\* titleForRun(runs[0].runId).
C2_RunStateFromFirstRun ==
  Len(jobState.runs) > 0 =>
    \A i \in DOMAIN out :
      LET run == jobState.runs[1]
          dots == WithTag(out[i], "RunStatus")
          links == WithTag(out[i], "Link")
      IN /\ Len(dots) = 1 /\ dots[1].props.status = run.status
         /\ Len(links) = 1 /\ links[1].props.to = << "instance", "runs", run.runId >>
         /\ Texts(links[1]) = << titleForRun(run) >>
         /\ Texts(out[i]) = << titleForRun(run) >>

C2_Witness ==
  /\ Rendered /\ Len(jobState.runs) > 1
  /\ jobState.runs[1].runId # jobState.runs[2].runId
  /\ jobState.runs[1].status = "SUCCESS"

\* C3: with more than one run in the snapshot, the rendered view equals the
\* view of the same snapshot holding only runs[0].
C3_LaterRunsIgnored ==
  Len(jobState.runs) > 1 =>
    \A i \in DOMAIN out :
      out[i] = JobRunStatus([jobState EXCEPT !.runs = << jobState.runs[1] >>])

C3_Witness ==
  /\ Rendered /\ Len(jobState.runs) > 1
  /\ jobState.runs[2].runId # jobState.runs[1].runId
  /\ jobState.runs[2].status # jobState.runs[1].status

\* C4: in every selection set of the JobStateFragment body no field name is
\* declared twice.
C4_NoDuplicateFields ==
  \A l \in DOMAIN FragmentLevels(fragment) :
    LET sel == FragmentLevels(fragment)[l].sel
    IN \A i, j \in DOMAIN sel :
         (sel[i].kind = "field" /\ sel[j].kind = "field" /\ sel[i].name = sel[j].name)
           => i = j

\* C5 as stated: every fragment definition appended to the document is spread
\* inside the JobStateFragment body, the origin fragment under
\* repositoryOrigin and the tick-tag fragment under ticks.
C5_EveryAppendedFragmentSpread ==
  /\ << << "repositoryOrigin" >>, "RepositoryOriginFragment" >> \in SpreadsIn(fragment)
  /\ << << "ticks" >>, "TickTagFragment" >> \in SpreadsIn(fragment)
  /\ AppendedNames(fragment) \subseteq SpreadNames(fragment)

\* C5 amended: the body spreads the origin fragment under repositoryOrigin
\* and the tick-tag fragment under ticks, and nothing else; every spread names
\* an appended definition; the python-error fragment is appended but is not
\* spread in the body.
C5_SpreadsOriginAndTickTag ==
  /\ SpreadsIn(fragment) =
       { << << "repositoryOrigin" >>, "RepositoryOriginFragment" >>,
         << << "ticks" >>, "TickTagFragment" >> }
  /\ SpreadNames(fragment) \subseteq AppendedNames(fragment)
  /\ AppendedNames(fragment) \ SpreadNames(fragment) = { "PythonErrorFragment" }

C5_Witness ==
  /\ source = "fetch"
  /\ Cardinality(AppendedNames(fragment)) = 3
  /\ Cardinality(SpreadsIn(fragment)) = 2

\* C6: a render pass is possible on every snapshot, and every view it returns
\* is the Empty State or the Run State, never an error element.
C6_TotalNoErrorState ==
  /\ Len(out) < MaxCalls => ENABLED Render
  /\ \A i \in DOMAIN out :
       /\ IsEmptyState(out[i]) \/ IsRunState(out[i])
       /\ WithTag(out[i], "error") = << >>

C6_Witness ==
  /\ Rendered /\ Len(jobState.runs) > 1
  /\ jobState.runs[1].status = "BOGUS"

\* C7: a render pass leaves the snapshot as it was, and all the views rendered
\* from one snapshot are equal.
C7_PureProjection ==
  /\ [][Len(out') > Len(out) => jobState' = jobState]_vars
  /\ [](\A i, j \in DOMAIN out : out[i] = out[j])

C7_Witness ==
  /\ Len(out) = MaxCalls /\ MaxCalls > 1
  /\ Len(jobState.runs) > 1
  /\ jobState.runs[1] # jobState.runs[2]

\* C8: every link in a rendered view opens in a new browsing context.
C8_LinksOpenNewContext ==
  \A i \in DOMAIN out :
    \A k \in DOMAIN WithTag(out[i], "Link") :
      LET link == WithTag(out[i], "Link")[k]
      IN "target" \in DOMAIN link.props /\ link.props.target = "_blank"

C8_Witness == Rendered /\ WithTag(Last, "Link") # << >>

\* C9: the runs and ticks selections both carry limit: 1, and a snapshot
\* fetched with the fragment holds at most one run and at most one tick.
C9_HistoriesWindowedToOne ==
  /\ ArgOf(fragment, "runs", "limit") = 1
  /\ ArgOf(fragment, "ticks", "limit") = 1
  /\ source = "fetch" => Len(jobState.runs) <= 1 /\ Len(jobState.ticks) <= 1

C9_Witness ==
  /\ source = "fetch" /\ Rendered
  /\ Len(stored.runs) > 1 /\ Len(stored.ticks) > 1
  /\ Len(jobState.runs) = 1 /\ Len(jobState.ticks) = 1

\* C10: two snapshots that agree on whether runs is empty and, when it is not,
\* on runs[0].runId and runs[0].status, render to the same view.
Agree(a, b) ==
  /\ (Len(a.runs) = 0) = (Len(b.runs) = 0)
  /\ Len(a.runs) > 0 =>
       a.runs[1].runId = b.runs[1].runId /\ a.runs[1].status = b.runs[1].status

C10_DependsOnlyOnFirstRun ==
  Rendered => \A other \in JobStates : Agree(jobState, other) => JobRunStatus(other) = Last

C10_Witness ==
  /\ Rendered /\ Len(jobState.runs) > 0
  /\ \E other \in JobStates :
       /\ Agree(jobState, other)
       /\ other.runs[1].id # jobState.runs[1].id
       /\ other.name # jobState.name
       /\ Len(other.runs) # Len(jobState.runs)
====
